---- MODULE Spec2Model ----
(***************************************************************************)
(* tox-pipenv: the four tox hooks of src/tox_pipenv/plugin.py as a state   *)
(* machine over the process environment, the two Pipfiles, the             *)
(* environment's stored command list and its status field.                 *)
(*                                                                         *)
(* Strings that the code inspects character by character (command tokens,  *)
(* the output of `pipenv graph`) are sequences of one-character strings.   *)
(* Every hook is synchronous and runs to completion, so a hook is one      *)
(* action; what it did on the way (each _pcall, what it raised) is kept in *)
(* the record `last`.                                                      *)
(***************************************************************************)
EXTENDS Integers, Sequences, FiniteSets, TLC

VARIABLES environ, rootPipfile, venvPipfile, commands, status,
          ignore_outcome, ignore_errors, last, prev

vars == <<environ, rootPipfile, venvPipfile, commands, status,
          ignore_outcome, ignore_errors, last, prev>>

-----------------------------------------------------------------------------
(* Bounds *)

\* longest command list of the environment
MaxCmds == 3
\* longest captured output of `pipenv graph`, in characters
MaxOut == 3

-----------------------------------------------------------------------------
(* Values *)

\* os.environ.get(name, None) of a name that is not set
Unset == "<unset>"
\* a file that does not exist
Absent == "<absent>"

\* str(venv.path) and str(venv.path.join("Pipfile"))
VenvPath == "/proj/.tox/py"
VenvPipfilePath == "/proj/.tox/py/Pipfile"

FlagNames == {"PIPENV_ACTIVE", "PIPENV_IGNORE_VIRTUALENVS", "PIPENV_YES"}
OverlayNames == {"PIPENV_PIPFILE", "PIPENV_VIRTUALENV", "VIRTUAL_ENV"}
EnvNames == FlagNames \cup OverlayNames

\* values a variable may hold when the host process starts
InitialValues == {Unset, "", "old"}

\* contents of a Pipfile; "" is the empty file
Contents == {"", "v1", "v2"}

\* venv.status before any hook has written it
InitialStatus == "0"

\* command tokens
DASH == <<"-">>
DDA == <<"-", "-", "a">>
TA == <<"a">>
TB == <<"b">>

\* command lines of a testenv: no prefix, the lone dash prefix, and a lone
\* dash followed by a dashed token (which a first tox_runtest leaves as a
\* command with a dash prefix glued to its first token)
CommandLines == { <<TA, TB>>, <<DASH, TA>>, <<DASH, DDA>> }

RECURSIVE SeqsUpTo(_, _)
SeqsUpTo(S, n) ==
    IF n = 0 THEN { <<>> }
    ELSE LET shorter == SeqsUpTo(S, n - 1)
         IN shorter \cup { Append(s, x) : s \in { t \in shorter : Len(t) = n - 1 }, x \in S }

CommandLists == { cl \in SeqsUpTo(CommandLines, MaxCmds) : Len(cl) >= 1 }

NL == "\n"
Outputs == SeqsUpTo({"a", NL}, MaxOut)

\* how the pipenv child process ends
ChildEnds == {"exit0", "exit1", "interrupt"}

-----------------------------------------------------------------------------
(* _init_pipenv_environ *)

InitPipenvEnviron(env) ==
    [n \in EnvNames |-> IF n \in FlagNames THEN "1" ELSE env[n]]

-----------------------------------------------------------------------------
(* _clone_pipfile: [root, venv] after the call *)

\* a clone that copies whether or not the environment has a Pipfile
ClonePipfileAlways(root, venv) ==
    LET root1 == IF root = Absent THEN "" ELSE root
    IN [root |-> root1, venv |-> root1]

ClonePipfile(root, venv) ==
    LET root1 == IF root = Absent THEN "" ELSE root
        venv1 == IF venv = Absent THEN root1 ELSE venv
    IN [root |-> root1, venv |-> venv1]

\* a make_emptydir that leaves the directory's files in place
MakeEmptydirKeeps(venv) == venv

\* venv.session.make_emptydir(venv.path): the directory is removed and
\* created again, so it holds no Pipfile afterwards
MakeEmptydir(venv) == Absent

-----------------------------------------------------------------------------
(* wrap_pipenv_environment *)

\* Python truthiness of os.environ.get(name, None)
Truthy(v) == v # Unset /\ v # ""

OverlayEnter(env) ==
    [n \in EnvNames |->
        IF n = "PIPENV_PIPFILE" THEN VenvPipfilePath
        ELSE IF n \in {"PIPENV_VIRTUALENV", "VIRTUAL_ENV"} THEN VenvPath
        ELSE env[n]]

\* the statements after the yield; old is the environment saved on entry
OverlayExitNormal(env, old) ==
    [n \in EnvNames |->
        IF n \in OverlayNames /\ Truthy(old[n]) THEN old[n] ELSE env[n]]

\* an exception thrown into the generator at the yield: there is no
\* try/finally, so nothing after the yield runs
OverlayExitRaised(env, old) == env

OverlayExit(env, old, raised) ==
    IF raised = "none" THEN OverlayExitNormal(env, old)
    ELSE OverlayExitRaised(env, old)

-----------------------------------------------------------------------------
(* venv._pcall: what the call raises for a way the child ends *)

Pcall(childEnd, ignore_ret) ==
    IF childEnd = "interrupt" THEN "KeyboardInterrupt"
    ELSE IF childEnd = "exit1" /\ ~ignore_ret THEN "InvocationError"
    ELSE "none"

\* a hook whose `with` block wraps the call in a handler for InvocationError
PropagateSwallowed(raised) ==
    IF raised = "InvocationError" THEN "none" ELSE raised

\* tox_testenv_create, tox_testenv_install_deps and tox_runenvreport call
\* _pcall with no try around it: what the call raises leaves the hook
Propagate(raised) == raised

\* argument vectors
PY == <<"p", "y", "t", "h", "o", "n">>
PIPENV == <<"p", "i", "p", "e", "n", "v">>
PipenvPrefix == << PY, <<"-", "m">>, PIPENV >>
RunPrefix == PipenvPrefix \o << <<"r", "u", "n">> >>
GraphArgs == PipenvPrefix \o << <<"g", "r", "a", "p", "h">> >>
InstallArgs == PipenvPrefix \o << <<"i", "n", "s", "t", "a", "l", "l">>, <<"-", "-", "d", "e", "v">> >>
CreateArgs == PipenvPrefix \o << <<"-", "-", "p", "y", "t", "h", "o", "n">>, PY >>

\* one _pcall as the hooks log it: the index and the stored argv of the
\* command (tox_runtest), the argument vector, the flag, how the child ended
\* and what the call raised, the environment's Pipfile at the time of the
\* call, and venv.status once the hook has handled what the call raised
Call(idx, cmd, args, ignore_ret, childEnd, pipfile, st) ==
    [idx |-> idx, cmd |-> cmd, args |-> args, ignore_ret |-> ignore_ret,
     childEnd |-> childEnd, raised |-> Pcall(childEnd, ignore_ret),
     pipfile |-> pipfile, status |-> st]

\* the record of a hook call: what it did and how it ended
HookRecord(hook, calls, raised, value, output, lines) ==
    [hook |-> hook, calls |-> calls, raised |-> raised, value |-> value,
     output |-> output, lines |-> lines]

NoHook == HookRecord("none", <<>>, "none", "None", <<>>, <<>>)

\* prev[i], for the commands of the environment: the stored argv and the
\* flag that command i had when a tox_runtest before the last hook call
\* processed it, and NotRun while none has. A hook call adds to it what the
\* hook call before it processed.
NotRun == [cmd |-> <<>>, ignore_ret |-> FALSE]

PrevOf(old, rec) ==
    [i \in 1..Len(old) |->
        IF rec.hook = "runtest" /\ i <= Len(rec.calls)
        THEN [cmd |-> rec.calls[i].cmd, ignore_ret |-> rec.calls[i].ignore_ret]
        ELSE old[i]]

-----------------------------------------------------------------------------
(* tox_testenv_create *)

tox_testenv_create(childEnd) ==
    LET env1 == InitPipenvEnviron(environ)
        emptied == MakeEmptydir(venvPipfile)
        files == ClonePipfile(rootPipfile, emptied)
        call == Call(0, <<>>, CreateArgs, FALSE, childEnd, files.venv, status)
        raised == Propagate(call.raised)
        env2 == OverlayExit(OverlayEnter(env1), env1, raised)
    IN /\ environ' = env2
       /\ rootPipfile' = files.root
       /\ venvPipfile' = files.venv
       /\ last' = HookRecord("create", <<call>>, raised,
                             IF raised = "none" THEN "True" ELSE "None",
                             <<>>, <<>>)
       /\ prev' = PrevOf(prev, last)
       /\ UNCHANGED <<commands, status, ignore_outcome, ignore_errors>>

-----------------------------------------------------------------------------
(* tox_testenv_install_deps *)

tox_testenv_install_deps(childEnd) ==
    LET env1 == InitPipenvEnviron(environ)
        files == ClonePipfile(rootPipfile, venvPipfile)
        call == Call(0, <<>>, InstallArgs, FALSE, childEnd, files.venv, status)
        raised == Propagate(call.raised)
        env2 == OverlayExit(OverlayEnter(env1), env1, raised)
    IN /\ environ' = env2
       /\ rootPipfile' = files.root
       /\ venvPipfile' = files.venv
       /\ last' = HookRecord("install_deps", <<call>>, raised,
                             IF raised = "none" THEN "True" ELSE "None",
                             <<>>, <<>>)
       /\ prev' = PrevOf(prev, last)
       /\ UNCHANGED <<commands, status, ignore_outcome, ignore_errors>>

-----------------------------------------------------------------------------
(* tox_runtest *)

StartsWithDash(tok) == Len(tok) >= 1 /\ tok[1] = "-"

\* an lstrip that removes one dash only
LStripOneDash(tok) ==
    IF Len(tok) >= 1 /\ tok[1] = "-" THEN Tail(tok) ELSE tok

\* str.lstrip("-")
RECURSIVE LStripDash(_)
LStripDash(tok) ==
    IF StartsWithDash(tok) THEN LStripDash(Tail(tok)) ELSE tok

\* lines 137-144: the flag, and argv as the in-place edits leave it
IgnoreRet(argv) == StartsWithDash(argv[1])

RewriteArgv(argv) ==
    IF StartsWithDash(argv[1])
    THEN IF argv[1] = DASH THEN Tail(argv)
         ELSE <<LStripDash(argv[1])>> \o Tail(argv)
    ELSE argv

\* a handler that forgets to record the interrupt
StatusAfterNoInterrupt(st, raised, ignoreOutcome) ==
    IF raised = "InvocationError"
    THEN IF ignoreOutcome THEN "ignored failed command" ELSE "commands failed"
    ELSE st

\* lines 155-171: the status after a _pcall that raised
StatusAfter(st, raised, ignoreOutcome) ==
    IF raised = "InvocationError"
    THEN IF ignoreOutcome THEN "ignored failed command" ELSE "commands failed"
    ELSE IF raised = "KeyboardInterrupt" THEN "keyboardinterrupt"
    ELSE st

\* a loop that breaks on a failure unless ignore_errors is set, whatever
\* ignore_outcome says
LoopContinuesErrorsOnly(raised, ignoreOutcome, ignoreErrors) ==
    IF raised = "none" THEN TRUE
    ELSE IF raised = "InvocationError" THEN ignoreErrors
    ELSE FALSE

\* a loop that breaks on a failure unless ignore_outcome is set, whatever
\* ignore_errors says
LoopContinuesOutcomeOnly(raised, ignoreOutcome, ignoreErrors) ==
    IF raised = "none" THEN TRUE
    ELSE IF raised = "InvocationError" THEN ignoreOutcome
    ELSE FALSE

\* whether the loop goes on to the next command after a _pcall
LoopContinues(raised, ignoreOutcome, ignoreErrors) ==
    IF raised = "none" THEN TRUE
    ELSE IF raised = "InvocationError" THEN ignoreOutcome \/ ignoreErrors
    ELSE FALSE

\* a loop that rewrites a copy of argv and leaves the stored command alone
StoreArgvCopy(cmds, i, argv) == cmds

\* lines 140 and 142 change the list object that venv.envconfig.commands
\* holds: the stored command is the rewritten one from then on
StoreArgv(cmds, i, argv) == [cmds EXCEPT ![i] = argv]

\* the for loop of lines 129-171 from index i (1-based here, i - 1 in the
\* code), one result for every way the children of the commands it reaches
\* can end: the stored commands, the status, the calls made, what escaped
RECURSIVE RunLoop(_, _, _, _, _)
RunLoop(i, cmds, st, calls, pipfile) ==
    IF i > Len(cmds)
    THEN { [commands |-> cmds, status |-> st, calls |-> calls, raised |-> "none"] }
    ELSE UNION {
        LET argv == RewriteArgv(cmds[i])
            raised == Pcall(childEnd, IgnoreRet(cmds[i]))
            st1 == StatusAfter(st, raised, ignore_outcome)
            call == Call(i - 1, cmds[i], RunPrefix \o argv, IgnoreRet(cmds[i]),
                         childEnd, pipfile, st1)
            cmds1 == StoreArgv(cmds, i, argv)
            calls1 == Append(calls, call)
        IN IF raised = "KeyboardInterrupt"
           THEN { [commands |-> cmds1, status |-> st1, calls |-> calls1,
                   raised |-> "KeyboardInterrupt"] }
           ELSE IF LoopContinues(raised, ignore_outcome, ignore_errors)
           THEN RunLoop(i + 1, cmds1, st1, calls1, pipfile)
           ELSE { [commands |-> cmds1, status |-> st1, calls |-> calls1,
                   raised |-> "none"] }
        : childEnd \in ChildEnds }

tox_runtest ==
    LET env1 == InitPipenvEnviron(environ)
        files == ClonePipfile(rootPipfile, venvPipfile)
    IN \E run \in RunLoop(1, commands, status, <<>>, files.venv) :
       /\ environ' = OverlayExit(OverlayEnter(env1), env1, run.raised)
       /\ rootPipfile' = files.root
       /\ venvPipfile' = files.venv
       /\ commands' = run.commands
       /\ status' = run.status
       /\ last' = HookRecord("runtest", run.calls, run.raised,
                             IF run.raised = "none" THEN "True" ELSE "None",
                             <<>>, <<>>)
       /\ prev' = PrevOf(prev, last)
       /\ UNCHANGED <<ignore_outcome, ignore_errors>>

-----------------------------------------------------------------------------
(* tox_runenvreport *)

\* a split that drops the empty entry after a final newline
RECURSIVE SplitNoTrailing(_)
SplitNoTrailing(s) ==
    IF s = <<>> THEN << <<>> >>
    ELSE IF s = <<NL>> THEN << <<>> >>
    ELSE LET rest == SplitNoTrailing(Tail(s))
         IN IF Head(s) = NL THEN << <<>> >> \o rest
            ELSE << <<Head(s)>> \o Head(rest) >> \o Tail(rest)

\* str.split("\n")
RECURSIVE Split(_)
Split(s) ==
    IF s = <<>> THEN << <<>> >>
    ELSE LET rest == Split(Tail(s))
         IN IF Head(s) = NL THEN << <<>> >> \o rest
            ELSE << <<Head(s)>> \o Head(rest) >> \o Tail(rest)

tox_runenvreport(childEnd, output) ==
    LET env1 == InitPipenvEnviron(environ)
        files == ClonePipfile(rootPipfile, venvPipfile)
        call == Call(0, <<>>, GraphArgs, FALSE, childEnd, files.venv, status)
        raised == Propagate(call.raised)
        env2 == OverlayExit(OverlayEnter(env1), env1, raised)
    IN /\ environ' = env2
       /\ rootPipfile' = files.root
       /\ venvPipfile' = files.venv
       /\ last' = IF raised = "none"
                  THEN HookRecord("runenvreport", <<call>>, "none", "lines",
                                  output, Split(output))
                  ELSE HookRecord("runenvreport", <<call>>, raised, "None",
                                  <<>>, <<>>)
       /\ prev' = PrevOf(prev, last)
       /\ UNCHANGED <<commands, status, ignore_outcome, ignore_errors>>

-----------------------------------------------------------------------------
(* the user edits the root Pipfile between hooks *)

EditRootPipfile(c) ==
    /\ c # rootPipfile
    /\ rootPipfile' = c
    /\ last' = HookRecord("edit", <<>>, "none", "None", <<>>, <<>>)
    /\ prev' = PrevOf(prev, last)
    /\ UNCHANGED <<environ, venvPipfile, commands, status, ignore_outcome,
                   ignore_errors>>

-----------------------------------------------------------------------------
(* Specifications *)

Create == \E e \in ChildEnds : tox_testenv_create(e)
InstallDeps == \E e \in ChildEnds : tox_testenv_install_deps(e)
RunTest == tox_runtest
\* a child that does not end well leaves no output to return
EnvReport ==
    \E e \in ChildEnds :
        \E out \in (IF e = "exit0" THEN Outputs ELSE { <<>> }) :
            tox_runenvreport(e, out)
Edit == \E c \in Contents : EditRootPipfile(c)

Next == Create \/ InstallDeps \/ RunTest \/ EnvReport \/ Edit

\* the host process starts with any values in the overridden variables and
\* any Pipfiles on disk; the environment has one fixed command list
InitEnv ==
    /\ environ \in { e \in [EnvNames -> InitialValues] :
                        \A n \in FlagNames : e[n] = Unset }
    /\ rootPipfile \in {Absent, "v1"}
    /\ venvPipfile \in {Absent, "", "v2"}
    /\ commands = << <<DASH, TA>>, <<TA>> >>
    /\ status = InitialStatus
    /\ ignore_outcome = FALSE
    /\ ignore_errors = FALSE
    /\ last = NoHook
    /\ prev = [i \in 1..Len(commands) |-> NotRun]

\* the environment has any command list and any flags; the process
\* environment and the disk start clean
InitRun ==
    /\ environ = [n \in EnvNames |-> Unset]
    /\ rootPipfile = "v1"
    /\ venvPipfile = Absent
    /\ commands \in CommandLists
    /\ status = InitialStatus
    /\ ignore_outcome \in BOOLEAN
    /\ ignore_errors \in BOOLEAN
    /\ last = NoHook
    /\ prev = [i \in 1..Len(commands) |-> NotRun]

Spec == InitEnv /\ [][Next]_vars
\* tox_runtest called again and again on the environment
NextRun == RunTest
SpecRun == InitRun /\ [][NextRun]_vars

-----------------------------------------------------------------------------
(* Properties *)

\* every action names itself in last.hook, so in a step that changes the
\* state the new last.hook tells which action was taken
CreateStep == last'.hook = "create"
InstallDepsStep == last'.hook = "install_deps"
RunTestStep == last'.hook = "runtest"
EnvReportStep == last'.hook = "runenvreport"
HookStep == CreateStep \/ InstallDepsStep \/ RunTestStep \/ EnvReportStep

RunTestDone == last.hook = "runtest"
Calls == last.calls
NCalls == Len(last.calls)
NCmds == Len(commands)

\* the calls of a tox_runtest are the commands 0, 1, 2, ... in index order
InIndexOrder == \A j \in 1..NCalls : Calls[j].idx = j - 1

\* the content a Pipfile copy made now would have
RootContentNow == IF rootPipfile = Absent THEN "" ELSE rootPipfile

----
\* C1: every hook leaves PIPENV_PIPFILE, PIPENV_VIRTUALENV and VIRTUAL_ENV
\* as they were before the hook entered the overlay, however the wrapped
\* call ended and whatever the variables held (unset, empty, non-empty).
C1_OverlayRestoresEnvironment ==
    [][HookStep => \A n \in OverlayNames : environ'[n] = environ[n]]_vars

----
\* C2 as claimed: with ignore_outcome set, a command that raises an
\* invocation error sets the status to "ignored failed command" and every
\* later command of the list is still invoked, in index order.
C2_IgnoredFailureRunsAllLaterCommands ==
    (RunTestDone /\ ignore_outcome) =>
        \A i \in 1..NCalls :
            Calls[i].raised = "InvocationError" =>
                /\ Calls[i].status = "ignored failed command"
                /\ InIndexOrder
                /\ NCalls = NCmds

\* C2 as amended: with ignore_outcome set, a command that raises an
\* invocation error sets the status to "ignored failed command" and the loop
\* goes on to the next command; the later commands are invoked in index
\* order up to the end of the list, or up to a command during which a
\* keyboard interrupt is raised.
C2_IgnoredFailureKeepsLoopGoing ==
    (RunTestDone /\ ignore_outcome) =>
        \A i \in 1..NCalls :
            Calls[i].raised = "InvocationError" =>
                /\ Calls[i].status = "ignored failed command"
                /\ InIndexOrder
                /\ i < NCmds => NCalls > i
                /\ \/ NCalls = NCmds
                   \/ /\ Calls[NCalls].raised = "KeyboardInterrupt"
                      /\ NCalls > i

C2_Witness ==
    /\ RunTestDone /\ ignore_outcome /\ ~ignore_errors
    /\ NCmds = 3 /\ NCalls = 3
    /\ Calls[1].raised = "InvocationError"
    /\ last.raised = "none"

----
\* C3 as claimed: with ignore_outcome clear, a command that raises an
\* invocation error sets the status to "commands failed"; with ignore_errors
\* clear no later command is invoked; with ignore_errors set every later
\* command is invoked in order and the status is "commands failed" when the
\* hook returns.
C3_FailureStopsOrRunsAllLaterCommands ==
    (RunTestDone /\ ~ignore_outcome) =>
        \A i \in 1..NCalls :
            Calls[i].raised = "InvocationError" =>
                /\ Calls[i].status = "commands failed"
                /\ InIndexOrder
                /\ ~ignore_errors => NCalls = i
                /\ ignore_errors => NCalls = NCmds
                /\ (ignore_errors /\ last.raised = "none") => status = "commands failed"

\* C3 as amended: as claimed, except that with ignore_errors set the later
\* commands are invoked in order up to the end of the list or up to a
\* command during which a keyboard interrupt is raised.
C3_FailureStopsOrKeepsLoopGoing ==
    (RunTestDone /\ ~ignore_outcome) =>
        \A i \in 1..NCalls :
            Calls[i].raised = "InvocationError" =>
                /\ Calls[i].status = "commands failed"
                /\ InIndexOrder
                /\ ~ignore_errors => NCalls = i /\ last.raised = "none"
                /\ ignore_errors =>
                      /\ i < NCmds => NCalls > i
                      /\ \/ NCalls = NCmds
                         \/ /\ Calls[NCalls].raised = "KeyboardInterrupt"
                            /\ NCalls > i
                /\ last.raised = "none" => status = "commands failed"

C3_Witness ==
    /\ RunTestDone /\ ~ignore_outcome /\ ignore_errors
    /\ NCmds = 3 /\ NCalls = 3
    /\ Calls[1].raised = "InvocationError"
    /\ Calls[2].raised = "none" /\ Calls[3].raised = "none"
    /\ last.raised = "none" /\ status = "commands failed"

----
\* tok is k dashes followed by rest, for the largest such k
StrippedOf(tok, rest) ==
    /\ ~(Len(rest) >= 1 /\ rest[1] = "-")
    /\ \E k \in 0..Len(tok) :
          /\ \A j \in 1..k : tok[j] = "-"
          /\ rest = SubSeq(tok, k + 1, Len(tok))

\* C4: a first token "-" is dropped and ignore_ret is true; a longer first
\* token that starts with "-" loses all its leading dashes, stays in place
\* and ignore_ret is true; otherwise ignore_ret is false and the command is
\* passed as it is. The argument vector is the `pipenv run` prefix followed
\* by the resulting tokens in their order.
C4_DashPrefixHandling ==
    RunTestDone =>
        \A i \in 1..NCalls :
            LET c == Calls[i]
                first == c.cmd[1]
                given == SubSeq(c.args, Len(RunPrefix) + 1, Len(c.args))
            IN /\ SubSeq(c.args, 1, Len(RunPrefix)) = RunPrefix
               /\ RunPrefix = << PY, <<"-", "m">>, PIPENV, <<"r", "u", "n">> >>
               /\ IF first = <<"-">>
                  THEN c.ignore_ret /\ given = Tail(c.cmd)
                  ELSE IF Len(first) >= 1 /\ first[1] = "-"
                  THEN /\ c.ignore_ret
                       /\ Len(given) = Len(c.cmd)
                       /\ StrippedOf(first, given[1])
                       /\ Tail(given) = Tail(c.cmd)
                  ELSE ~c.ignore_ret /\ given = c.cmd

C4_Witness ==
    /\ RunTestDone
    /\ \E i \in 1..NCalls :
          /\ Calls[i].cmd = << <<"-", "-", "a">> >>
          /\ Calls[i].args = RunPrefix \o << <<"a">> >>
          /\ Calls[i].ignore_ret

----
\* C5: when tox_testenv_create is over, the environment's Pipfile exists
\* and holds what the root Pipfile held when it was copied; a root Pipfile
\* that did not exist has been created empty; and the pipenv child process
\* was started with the copy already in place.
C5_CreateClonesRootPipfile ==
    [][CreateStep =>
          /\ venvPipfile' # Absent
          /\ venvPipfile' = RootContentNow
          /\ rootPipfile' = RootContentNow
          /\ Len(last'.calls) = 1
          /\ last'.calls[1].pipfile = RootContentNow]_vars

C5_Witness ==
    /\ last.hook = "create" /\ last.raised = "none"
    /\ venvPipfile = "v1" /\ rootPipfile = "v1"
    /\ last.calls[1].pipfile = "v1"

----
\* C6 as claimed: once the environment has its Pipfile, no step replaces
\* its content.
C6_CopyNeverReplaced ==
    [][venvPipfile # Absent => venvPipfile' = venvPipfile]_vars

\* C6 as amended: once the environment has its Pipfile, install-deps,
\* run-tests and env-report never replace its content, whatever the root
\* Pipfile holds by then; tox_testenv_create empties the environment
\* directory and copies the root Pipfile as it is at that moment.
C6_CopyReplacedOnlyByCreate ==
    [][/\ (venvPipfile # Absent /\ ~CreateStep) => venvPipfile' = venvPipfile
       /\ CreateStep => venvPipfile' = RootContentNow]_vars

C6_Witness ==
    /\ last.hook \in {"install_deps", "runtest", "runenvreport"}
    /\ venvPipfile = "v1" /\ rootPipfile = "v2"

----
\* C7: a keyboard interrupt during command i sets the status to
\* "keyboardinterrupt", leaves the hook as an exception instead of a return
\* value, and no later command is invoked; a run without a keyboard
\* interrupt returns a non-null marker whichever commands failed.
C7_InterruptIsFatal ==
    RunTestDone =>
        /\ InIndexOrder
        /\ \A i \in 1..NCalls :
              Calls[i].childEnd = "interrupt" =>
                  /\ Calls[i].status = "keyboardinterrupt"
                  /\ status = "keyboardinterrupt"
                  /\ last.raised = "KeyboardInterrupt"
                  /\ last.value = "None"
                  /\ NCalls = i
        /\ (\A i \in 1..NCalls : Calls[i].childEnd # "interrupt") =>
              last.raised = "none" /\ last.value = "True"

C7_Witness ==
    /\ RunTestDone /\ last.raised = "KeyboardInterrupt"
    /\ NCalls = 2 /\ NCmds = 3
    /\ Calls[1].raised = "InvocationError"
    /\ status = "keyboardinterrupt"

----
\* C8: tox_runtest never lets an invocation error out; in the other three
\* hooks an invocation error of the child leaves the hook unhandled, the
\* hook returns nothing and venv.status is as it was.
C8_InvocationErrorCaughtOnlyInRunTest ==
    [][/\ RunTestStep => last'.raised # "InvocationError"
       /\ (CreateStep \/ InstallDepsStep \/ EnvReportStep) =>
             /\ status' = status
             /\ last'.calls[1].childEnd = "exit1" =>
                   /\ last'.raised = "InvocationError"
                   /\ last'.value = "None"]_vars

C8_Witness ==
    /\ last.hook = "runenvreport" /\ last.raised = "InvocationError"
    /\ last.value = "None" /\ status = "commands failed"

----
RECURSIVE CountNL(_)
CountNL(s) ==
    IF s = <<>> THEN 0
    ELSE (IF Head(s) = NL THEN 1 ELSE 0) + CountNL(Tail(s))

RECURSIVE JoinNL(_)
JoinNL(ls) ==
    IF Len(ls) = 1 THEN ls[1]
    ELSE ls[1] \o <<NL>> \o JoinNL(Tail(ls))

\* C9: tox_runenvreport returns the captured output split at every newline:
\* the lines in their order, k + 1 entries for k newlines, and an empty last
\* entry when the output ends with a newline.
C9_ReportSplitsOnNewlines ==
    (last.hook = "runenvreport" /\ last.raised = "none") =>
        /\ last.value = "lines"
        /\ Len(last.lines) = CountNL(last.output) + 1
        /\ \A j \in 1..Len(last.lines) : CountNL(last.lines[j]) = 0
        /\ JoinNL(last.lines) = last.output
        /\ (last.output # <<>> /\ last.output[Len(last.output)] = NL) =>
              last.lines[Len(last.lines)] = <<>>

C9_Witness ==
    /\ last.hook = "runenvreport" /\ last.raised = "none"
    /\ last.output = <<"a", NL>>
    /\ last.lines = << <<"a">>, <<>> >>

----
\* the stored command that the processing of cmd leaves behind
RewrittenFrom(cmd, stored) ==
    IF cmd[1] = <<"-">> THEN stored = Tail(cmd)
    ELSE /\ Len(stored) = Len(cmd)
         /\ Tail(stored) = Tail(cmd)
         /\ StrippedOf(cmd[1], stored[1])

\* the token after a lone dash begins with a dash itself
DashAfterLoneDash(cmd) ==
    /\ cmd[1] = <<"-">>
    /\ Len(cmd) >= 2
    /\ Len(cmd[2]) >= 1 /\ cmd[2][1] = "-"

\* the commands that the last tox_runtest processed and that a tox_runtest
\* before it had processed already
BothRuns == { i \in 1..NCalls : prev[i] # NotRun }

====
